---- MODULE Spec2Model ----
(***************************************************************************)
(* Model of the retrieval-augmented query pipeline of HorizonZeroDawn_RAG: *)
(* the Chat orchestrator of src/rag_chat.py (telemetry record, feedback    *)
(* rating, the stages of get_response), the token-budgeted history         *)
(* (_get_history) and the hybrid retrieval of src/rag.py.                  *)
(*                                                                         *)
(* A text is a record with an id and the number of tokens the tokenizer    *)
(* counts for it (ntok): len(encoding.encode(text)) is text.ntok.          *)
(* Wall-clock readings (time.time()) and the four durations of a telemetry *)
(* row are left out; a row keeps used_tokens, query_classification,        *)
(* query_cnt and rating, plus the ghost field turn naming the turn that    *)
(* produced it.                                                            *)
(***************************************************************************)
EXTENDS Integers, Sequences, FiniteSets, TLC

VARIABLES
    history,     \* Chat.history: the sequence of messages
    use_data,    \* Chat.use_data: the pending telemetry record, or None
    file,        \* rows of data/user_data.csv, the header row included
    alive,       \* FALSE once __del__ has run (the file is closed)
    pc,          \* position of the get_response call in flight, or "idle"
    loc,         \* the local variables of the get_response call in flight
    turn,        \* ghost: number of get_response calls begun (the turn id)
    completed,   \* ghost: ids of the completed turns, in completion order
    failed,      \* ghost: ids of the turns that raised
    calls,       \* ghost: external calls issued by the turn in flight
    rated,       \* ghost: <<turn, rating>> of every accepted store_rating
    last,        \* ghost: outcome of the most recent finished call
    usable,      \* result of the last _get_history evaluation, or None
    rres,        \* result of the last RAG.retrieval evaluation, or None
    metric,      \* inputs and result of the last metric evaluation, or None
    ev,          \* the evaluate_rag run: dataset, position, results; or None
    thr,         \* threads that share one Chat: position and locals; or None
    disk,        \* the telemetry file as the file system holds it; or None
    ctor         \* Chat constructions on that file: position and locals; or None

vars == <<history, use_data, file, alive, pc, loc, turn, completed, failed,
          calls, rated, last, usable, rres, metric, ev, thr, disk, ctor>>

\* The variables the Chat operations, _get_history and retrieval leave alone.
auxVars == <<metric, ev, thr, disk, ctor>>

chatVars == <<use_data, file, alive, pc, loc, turn, completed, failed,
              calls, rated, last>>

\* ---------------------------------------------------------------- bounds
\* get_response calls per behaviour
MaxTurns == 3
\* longest history given to _get_history
MaxHist == 3
\* largest limit given to RAG.retrieval
MaxLimit == 3

\* ------------------------------------------------------------- constants
TOKEN_LIMIT == 500

None == [none |-> TRUE]
\* The rating cell of a row: empty (numpy.nan) or holding the rating.
NaN == <<>>
Rated(rating) == <<rating>>

\* The six categories the rewrite prompt enumerates.
Labels == {"machine", "society", "location", "object", "character", "other"}

\* The column header of the telemetry file.
FIELDNAMES == <<"timestamp", "used_tokens", "reword_time", "rag_time",
                "generation_time", "full_response_time",
                "query_classification", "query_cnt", "rating">>

HeaderRow == [header |-> FIELDNAMES]

Text(id, n) == [id |-> id, ntok |-> n]

\* ----------------------------------------------------------------- inputs
\* Queries a user types.
Queries == {Text("q1", 2), Text("q2", 5)}
\* Ratings the UI delivers (chat_ui.py: int(selected), 0 or 1).
Ratings == {0, 1}
\* Classifications the LLM may answer with; the last is not one of Labels.
LlmLabels == {"machine", "unknown-label"}
\* What the LLM answers to the rewrite call: a JSON object with both keys,
\* a JSON object without them, or text that is not JSON.
RewriteResponses ==
    {[kind |-> "json", classification |-> c, query |-> "rq", ntok |-> 4] :
         c \in LlmLabels}
    \cup {[kind |-> "json_nokeys", classification |-> "", query |-> "", ntok |-> 1],
          [kind |-> "garbage", classification |-> "", query |-> "", ntok |-> 3]}
\* What the LLM answers to the generation call.
Answers == {Text("a1", 6)}
\* What the inherited retrieval returns to get_response.
HybridResults == {<<>>, <<"p1", "p2", "p3", "p4">>}

RECURSIVE SumTok(_)
SumTok(s) == IF s = <<>> THEN 0 ELSE Head(s).ntok + SumTok(Tail(s))

\* -------------------------------------------------------- pure functions
\* _get_used_tokens: the tokenizer's count for a text.
get_used_tokens(text) == text.ntok

\* _get_history: walks the history from the first message; used_tokens is
\* set to 0 and never increased, so each message is compared alone.
RECURSIVE get_history_loop(_, _, _, _)
get_history_loop(h, used_tokens, usable_history, limit) ==
    IF h = <<>> THEN usable_history
    ELSE IF get_used_tokens(Head(h)) + used_tokens < limit
         THEN get_history_loop(Tail(h), used_tokens,
                               Append(usable_history, Head(h)), limit)
         ELSE usable_history

get_history(h, limit) == get_history_loop(h, 0, <<>>, limit)

\* get_reword_prompt: returns <<system_prompt, reword_prompt>>.
get_reword_prompt(user_query, h, use_history) ==
    LET context_history == IF use_history THEN get_history(h, TOKEN_LIMIT)
                           ELSE <<Text("None", 1)>>
        system_prompt == Text("reword_system", 7)
        reword_prompt == [id |-> "reword_user", query |-> user_query.id,
                          history |-> context_history,
                          ntok |-> 3 + user_query.ntok + SumTok(context_history)]
    IN <<system_prompt, reword_prompt>>

\* get_rag_prompt: returns <<system_prompt, rag_prompt>>.
get_rag_prompt(llm_query, documents) ==
    LET rag_prompt == [id |-> "rag_user", query |-> llm_query.query,
                       documents |-> documents,
                       ntok |-> 4 + llm_query.ntok + 2 * Len(documents)]
        system_prompt == Text("rag_system", 5)
    IN <<system_prompt, rag_prompt>>

\* get_llm_response: the messages of the chat completion request.
get_llm_response_messages(system_prompt, user_query) ==
    [system |-> system_prompt, user |-> user_query]

\* The rewrite call of evaluate_rag: the results of get_reword_prompt are
\* bound as (sys_reword_prompt, user_reword_prompt) and passed by keyword.
evaluate_rewrite_messages(question) ==
    LET p == get_reword_prompt(question, <<>>, FALSE)
    IN get_llm_response_messages(p[1], p[2])

\* _store_user_data: the record of a completed turn, rating unset.
store_user_data(t, used_tokens, classification) ==
    [turn |-> t, used_tokens |-> used_tokens,
     query_classification |-> classification, query_cnt |-> 1, rating |-> NaN]

\* Variant: _write_user_data never writes the pending record.
write_user_data_file_skip(ud, f) == f

\* Variant: _write_user_data puts the pending record before the older rows.
write_user_data_file_front(ud, f) ==
    IF ud # None THEN <<Head(f), ud>> \o Tail(f) ELSE f

\* The file after _write_user_data: the pending record, if any, is appended.
write_user_data_file(ud, f) == IF ud # None THEN Append(f, ud) ELSE f

\* Variant: _write_user_data does not clear use_data.
write_user_data_pending_keep(ud) == ud

\* use_data after _write_user_data.
write_user_data_pending(ud) == None

NoLoc == [query |-> None, sys_prompt |-> None, user_prompt |-> None,
          new_query |-> None, tokens |-> 0, context |-> <<>>]
NoCalls == [rewrite |-> 0, retrieve |-> 0, generate |-> 0, label |-> "none",
            llm_failed |-> "none", args |-> None, sent |-> None,
            messages |-> None]
NoLast == [op |-> "none", status |-> "none", turn |-> 0, value |-> None,
           arg |-> None, repeat |-> FALSE]

\* ------------------------------------------------------------------ Init
\* Chat.__init__: empty history, no pending record; the file is opened for
\* appending and holds its header.
InitChat ==
    /\ use_data = None
    /\ file = <<HeaderRow>>
    /\ alive = TRUE
    /\ pc = "idle"
    /\ loc = NoLoc
    /\ turn = 0
    /\ completed = <<>>
    /\ failed = {}
    /\ calls = NoCalls
    /\ rated = {}
    /\ last = NoLast

InitAux ==
    /\ metric = None
    /\ ev = None
    /\ thr = None
    /\ disk = None
    /\ ctor = None

Init ==
    /\ InitChat
    /\ InitAux
    /\ history = <<>>
    /\ usable = None
    /\ rres = None

\* ------------------------------------------------------- Chat operations
\* get_response, up to the rewrite call: the pending record of the previous
\* turn is written, then the rewrite prompts are built.  The two results of
\* get_reword_prompt are bound in the order (user_prompt, sys_prompt); the
\* rewrite call passes them as user_query=user_prompt, system_prompt=sys_prompt.
GetResponseStart(q) ==
    /\ pc = "idle" /\ alive /\ turn < MaxTurns
    /\ file' = write_user_data_file(use_data, file)
    /\ use_data' = write_user_data_pending(use_data)
    /\ turn' = turn + 1
    /\ LET p == get_reword_prompt(q, history, TRUE)
       IN loc' = [NoLoc EXCEPT !.query = q, !.user_prompt = p[1],
                               !.sys_prompt = p[2]]
    /\ calls' = NoCalls
    /\ pc' = "rewriting"
    /\ last' = NoLast
    /\ UNCHANGED auxVars
    /\ UNCHANGED <<history, alive, completed, failed, rated, usable, rres>>

\* The exception leaves get_response: the turn is over, nothing is stored.
Raise(stage, error) ==
    /\ pc' = "idle"
    /\ loc' = NoLoc
    /\ failed' = failed \cup {turn}
    /\ last' = [op |-> "get_response", status |-> "raised", turn |-> turn,
                value |-> [error |-> error, stage |-> stage],
                arg |-> loc.query, repeat |-> FALSE]
    /\ UNCHANGED auxVars
    /\ UNCHANGED <<history, use_data, file, alive, turn, completed, rated,
                   usable, rres>>

\* The rewrite call answers and json.loads parses the answer.
RewriteOk(r) ==
    /\ pc = "rewriting"
    /\ r.kind \in {"json", "json_nokeys"}
    /\ calls' = [calls EXCEPT !.messages = get_llm_response_messages(loc.sys_prompt,
                                                                     loc.user_prompt),
                              !.rewrite = @ + 1]
    /\ loc' = [loc EXCEPT !.new_query = r,
                          !.tokens = get_used_tokens(loc.user_prompt)
                                     + get_used_tokens(loc.sys_prompt)]
    /\ pc' = "retrieving"
    /\ UNCHANGED auxVars
    /\ UNCHANGED <<history, use_data, file, alive, turn, completed, failed,
                   rated, last, usable, rres>>

\* Variant: a failed rewrite call is issued again.
RewriteLlmFailRetry ==
    /\ pc = "rewriting"
    /\ calls' = [calls EXCEPT !.messages = get_llm_response_messages(loc.sys_prompt,
                                                                     loc.user_prompt),
                              !.rewrite = @ + 1, !.llm_failed = "rewrite"]
    /\ UNCHANGED auxVars
    /\ UNCHANGED <<history, use_data, file, alive, pc, loc, turn, completed,
                   failed, rated, last, usable, rres>>

\* The rewrite call fails: get_llm_response raises ValueError.
RewriteLlmFail ==
    /\ pc = "rewriting"
    /\ calls' = [calls EXCEPT !.messages = get_llm_response_messages(loc.sys_prompt,
                                                                     loc.user_prompt),
                              !.rewrite = @ + 1, !.llm_failed = "rewrite"]
    /\ Raise("rewrite", "ValueError")

\* The rewrite call answers text json.loads rejects.
RewriteParseFail(r) ==
    /\ pc = "rewriting"
    /\ r.kind = "garbage"
    /\ calls' = [calls EXCEPT !.messages = get_llm_response_messages(loc.sys_prompt,
                                                                     loc.user_prompt),
                              !.rewrite = @ + 1]
    /\ Raise("parse", "JSONDecodeError")

\* Variant: the retrieval is issued without the classification of the
\* rewrite response.
retrieval_args_other(new_query) ==
    [query |-> new_query.query, classification |-> "other"]

\* The arguments of the retrieval call: query=new_query["query"],
\* classification=new_query["classification"].
retrieval_args(new_query) ==
    [query |-> new_query.query, classification |-> new_query.classification]

\* new_query["query"] or new_query["classification"] is missing.
RetrieveKeyError ==
    /\ pc = "retrieving"
    /\ loc.new_query.kind = "json_nokeys"
    /\ calls' = calls
    /\ Raise("retrieve", "KeyError")

\* The retrieval is issued with the rewritten query and its classification,
\* whatever the classification is, and answers; the first 3 points are kept.
RetrieveOk(points) ==
    /\ pc = "retrieving"
    /\ loc.new_query.kind = "json"
    /\ calls' = [calls EXCEPT !.retrieve = @ + 1,
                              !.label = retrieval_args(loc.new_query).classification,
                              !.args = retrieval_args(loc.new_query)]
    /\ loc' = [loc EXCEPT !.context = SubSeq(points, 1, IF Len(points) < 3
                                                        THEN Len(points) ELSE 3)]
    /\ pc' = "generating"
    /\ UNCHANGED auxVars
    /\ UNCHANGED <<history, use_data, file, alive, turn, completed, failed,
                   rated, last, usable, rres>>

\* The retrieval raises.
RetrieveFail ==
    /\ pc = "retrieving"
    /\ loc.new_query.kind = "json"
    /\ calls' = [calls EXCEPT !.retrieve = @ + 1,
                              !.label = retrieval_args(loc.new_query).classification,
                              !.args = retrieval_args(loc.new_query)]
    /\ Raise("retrieve", "RetrievalError")

\* use_data when the generation call has answered.
generated_use_data(t, l, p) ==
    store_user_data(t, l.tokens + get_used_tokens(p[2]) + get_used_tokens(p[1]),
                    l.new_query.classification)

\* The generation call answers: the record of the turn is stored in use_data
\* and the answer is returned.
GenerateOk(a) ==
    /\ pc = "generating"
    /\ calls' = [calls EXCEPT !.generate = @ + 1,
                              !.sent = get_rag_prompt(loc.new_query, loc.context)[2]]
    /\ use_data' = generated_use_data(turn, loc,
                                      get_rag_prompt(loc.new_query, loc.context))
    /\ completed' = Append(completed, turn)
    /\ pc' = "idle"
    /\ loc' = NoLoc
    /\ last' = [op |-> "get_response", status |-> "returned", turn |-> turn,
                value |-> a, arg |-> loc.query, repeat |-> FALSE]
    /\ UNCHANGED auxVars
    /\ UNCHANGED <<history, file, alive, turn, failed, rated, usable, rres>>

\* Variant: the record is stored before the generation call answers.
failed_use_data_partial(ud, t, l) ==
    store_user_data(t, l.tokens, l.new_query.classification)

\* use_data when the generation call has failed: _store_user_data is not
\* reached, use_data keeps its value.
failed_use_data(ud, t, l) == ud

\* The generation call fails: get_llm_response raises ValueError.
GenerateFail ==
    /\ pc = "generating"
    /\ calls' = [calls EXCEPT !.generate = @ + 1, !.llm_failed = "generate",
                              !.sent = get_rag_prompt(loc.new_query, loc.context)[2]]
    /\ pc' = "idle"
    /\ loc' = NoLoc
    /\ failed' = failed \cup {turn}
    /\ use_data' = failed_use_data(use_data, turn, loc)
    /\ last' = [op |-> "get_response", status |-> "raised", turn |-> turn,
                value |-> [error |-> "ValueError", stage |-> "generate"],
                arg |-> loc.query, repeat |-> FALSE]
    /\ UNCHANGED auxVars
    /\ UNCHANGED <<history, file, alive, turn, completed, rated, usable, rres>>

\* store_rating with a record pending: the rating is set on the pending
\* record, the record is written and use_data is cleared.
rated_use_data(ud, rating) == [ud EXCEPT !.rating = Rated(rating)]

StoreRatingOk(rating) ==
    /\ pc = "idle" /\ alive
    /\ use_data # None
    /\ file' = write_user_data_file(rated_use_data(use_data, rating), file)
    /\ use_data' = write_user_data_pending(use_data)
    /\ rated' = rated \cup {<<use_data.turn, rating>>}
    /\ last' = [op |-> "store_rating", status |-> "returned",
                turn |-> use_data.turn, value |-> None, arg |-> rating,
                repeat |-> (last.op = "store_rating")]
    /\ UNCHANGED auxVars
    /\ UNCHANGED <<history, alive, pc, loc, turn, completed, failed, calls,
                   usable, rres>>

\* store_rating with no record pending: use_data is None and the item
\* assignment self.use_data["rating"] = rating raises TypeError.
StoreRatingNone(rating) ==
    /\ pc = "idle" /\ alive
    /\ use_data = None
    /\ last' = [op |-> "store_rating", status |-> "raised", turn |-> 0,
                value |-> [error |-> "TypeError", stage |-> "store_rating"],
                arg |-> rating, repeat |-> (last.op = "store_rating")]
    /\ UNCHANGED auxVars
    /\ UNCHANGED <<history, use_data, file, alive, pc, loc, turn, completed,
                   failed, calls, rated, usable, rres>>

\* __del__: the pending record is written and the file closed.
Del ==
    /\ pc = "idle" /\ alive
    /\ file' = write_user_data_file(use_data, file)
    /\ use_data' = write_user_data_pending(use_data)
    /\ alive' = FALSE
    /\ last' = [op |-> "del", status |-> "returned", turn |-> 0, value |-> None,
                arg |-> None, repeat |-> FALSE]
    /\ UNCHANGED auxVars
    /\ UNCHANGED <<history, pc, loc, turn, completed, failed, calls, rated,
                   usable, rres>>

Next ==
    \/ \E q \in Queries : GetResponseStart(q)
    \/ \E r \in RewriteResponses : RewriteOk(r)
    \/ RewriteLlmFail
    \/ \E r \in RewriteResponses : RewriteParseFail(r)
    \/ RetrieveKeyError
    \/ \E points \in HybridResults : RetrieveOk(points)
    \/ RetrieveFail
    \/ \E a \in Answers : GenerateOk(a)
    \/ GenerateFail
    \/ \E rating \in Ratings : StoreRatingOk(rating)
    \/ \E rating \in Ratings : StoreRatingNone(rating)
    \/ Del

Spec == Init /\ [][Next]_vars

\* --------------------------------------------------------- _get_history
\* Messages of a history, by token count, and the token limits tried (the
\* class sets TOKEN_LIMIT).
Msgs == {Text("m1", 1), Text("m2", 300), Text("m3", 499), Text("m4", 500)}
Limits == {1, 300, TOKEN_LIMIT}

RECURSIVE Histories(_)
Histories(n) ==
    IF n = 0 THEN {<<>>}
    ELSE LET shorter == Histories(n - 1)
         IN shorter \cup {Append(h, m) : h \in shorter, m \in Msgs}

InitHistory ==
    /\ InitChat
    /\ InitAux
    /\ history \in Histories(MaxHist)
    /\ usable = None
    /\ rres = None

\* One evaluation of _get_history on the history, under token limit L.
GetHistory(L) ==
    /\ usable = None
    /\ usable' = [limit |-> L, result |-> get_history(history, L)]
    /\ UNCHANGED auxVars
    /\ UNCHANGED <<history, rres>>
    /\ UNCHANGED chatVars

NextHistory == \E L \in Limits : GetHistory(L)

SpecHistory == InitHistory /\ [][NextHistory]_vars

\* ---------------------------------------------------------- RAG.retrieval
\* The collection: every point has an id and a classification.
Corpus == {[id |-> "p1", classification |-> "machine"],
           [id |-> "p2", classification |-> "machine"],
           [id |-> "p3", classification |-> "machine"],
           [id |-> "p4", classification |-> "character"]}
CorpusIds == {p.id : p \in Corpus}
ClassOf(id) == (CHOOSE p \in Corpus : p.id = id).classification

\* The engine's defaults the call relies on: query_points is called without
\* a limit (10 points at most) and with the plain RRF fusion (constant 2).
DefaultLimit == 10
RrfK == 2

Range(seq) == {seq[i] : i \in 1..Len(seq)}
NoDup(seq) == \A i, j \in 1..Len(seq) : seq[i] = seq[j] => i = j
Top(seq, k) == SubSeq(seq, 1, IF Len(seq) < k THEN Len(seq) ELSE k)

RECURSIVE Arrangements(_)
\* Every sequence without repetition of elements of S.
Arrangements(S) ==
    {<<>>} \cup UNION {{<<x>> \o a : a \in Arrangements(S \ {x})} : x \in S}
Perms(S) == {a \in Arrangements(S) : Len(a) = Cardinality(S)}

\* Variant: the filter on classification is not applied inside the branch.
Prefetch_unfiltered(ranking, classification, limit) == Top(ranking, limit)

\* A branch of the query: the branch's ranking of the collection, restricted
\* to the points the filter on classification matches, cut at the limit.
\* The filter is given once, as query_filter of the whole query; the engine
\* applies it inside every prefetch.
Prefetch(ranking, classification, limit) ==
    LET matches(id) == ClassOf(id) = classification
    IN Top(SelectSeq(ranking, matches), limit)

PosIn(seq, id) == CHOOSE i \in 1..Len(seq) : seq[i] = id
\* Reciprocal rank fusion score of a point, scaled by 60 to stay integral:
\* 1 / (rank + RrfK) for every branch that holds it, rank counted from 0.
RrfScore(id, dense, lexical) ==
    (IF id \in Range(dense) THEN 60 \div (PosIn(dense, id) - 1 + RrfK) ELSE 0)
    + (IF id \in Range(lexical) THEN 60 \div (PosIn(lexical, id) - 1 + RrfK) ELSE 0)

\* The orders the fusion may answer: the points of both branches, each once,
\* by descending score; the order among equal scores is the engine's.
FusedOrders(dense, lexical) ==
    {o \in Perms(Range(dense) \cup Range(lexical)) :
        \A i, j \in 1..Len(o) :
            i < j => RrfScore(o[i], dense, lexical) >= RrfScore(o[j], dense, lexical)}

\* result.points of query_points.
query_points(fused) == Top(fused, DefaultLimit)

\* What retrieval returns: result.points[0], one point, or IndexError when
\* the engine answers no point.
retrieval_return(points) ==
    IF points = <<>> THEN [tag |-> "IndexError"]
    ELSE [tag |-> "point", id |-> points[1]]

InitRetrieval ==
    /\ InitChat
    /\ InitAux
    /\ history = <<>>
    /\ usable = None
    /\ rres = None

\* One call retrieval(query, classification, limit); the query decides the
\* two rankings of the collection.
Retrieval(classification, limit, denseRanking, lexicalRanking) ==
    /\ rres = None
    /\ LET dense == Prefetch(denseRanking, classification, limit)
           lexical == Prefetch(lexicalRanking, classification, limit)
       IN \E fused \in FusedOrders(dense, lexical) :
             rres' = [classification |-> classification, limit |-> limit,
                      denseRanking |-> denseRanking,
                      lexicalRanking |-> lexicalRanking,
                      dense |-> dense, lexical |-> lexical,
                      points |-> query_points(fused),
                      ret |-> retrieval_return(query_points(fused))]
    /\ UNCHANGED auxVars
    /\ UNCHANGED <<history, usable>>
    /\ UNCHANGED chatVars

NextRetrieval ==
    \E classification \in {"machine", "character", "other"},
       limit \in 1..MaxLimit,
       denseRanking \in Perms(CorpusIds),
       lexicalRanking \in Arrangements(CorpusIds) :
          Retrieval(classification, limit, denseRanking, lexicalRanking)

SpecRetrieval == InitRetrieval /\ [][NextRetrieval]_vars

\* ------------------------------------------------- evaluation metrics
\* largest k given to the metrics
MaxK == 3

\* Ids of retrieved and of relevant passages.
MetricIds == {"a", "b", "c", "d"}

\* A float result n / d, an exception, or None (a function that ends without
\* a return statement).
Value(n, d) == [tag |-> "value", n |-> n, d |-> d]
Raised(error) == [tag |-> error]
NoneValue == [tag |-> "None"]

\* precision: counts the first k items that are relevant; items[cnt] raises
\* IndexError when items has fewer than k elements.
precision(items, relevant_items, k) ==
    IF Len(items) < k THEN Raised("IndexError")
    ELSE IF k = 0 THEN Raised("ZeroDivisionError")
    ELSE Value(Cardinality({cnt \in 1..k : items[cnt] \in Range(relevant_items)}), k)

\* recall: counts the first k relevant items that are among items;
\* relevant_items[i] raises IndexError when there are fewer than k of them.
recall(items, relevant_items, k) ==
    IF Len(relevant_items) < k THEN Raised("IndexError")
    ELSE IF k = 0 THEN Raised("ZeroDivisionError")
    ELSE Value(Cardinality({i \in 1..k : relevant_items[i] \in Range(items)}), k)

\* Variant: the arithmetic mean of precision and recall.
f1_combine_mean(p, r) == Value(p.n * r.d + r.n * p.d, 2 * p.d * r.d)

\* f1_score, once precision and recall are known: 0 when both are 0, else
\* (2 * precision * recall) / (precision + recall).
f1_combine(p, r) ==
    IF p.n = 0 /\ r.n = 0 THEN Value(0, 1)
    ELSE Value(2 * p.n * r.n * (p.d * r.d), (p.d * r.d) * (p.n * r.d + r.n * p.d))

\* f1_score: an exception of precision or of recall propagates.
f1_score(items, relevant_items, k) ==
    LET k_precision == precision(items, relevant_items, k)
        k_recall == recall(items, relevant_items, k)
    IN IF k_precision.tag # "value" THEN k_precision
       ELSE IF k_recall.tag # "value" THEN k_recall
       ELSE f1_combine(k_precision, k_recall)

\* first_relevant_item: walks items from index 0; at each index the item is
\* tested first, then idx == k; the loop may end without a return.
RECURSIVE first_relevant_loop(_, _, _, _)
first_relevant_loop(items, relevant_items, k, idx) ==
    IF idx >= Len(items) THEN NoneValue
    ELSE IF items[idx + 1] \in Range(relevant_items) THEN Value(1, idx + 1)
    ELSE IF idx = k THEN Value(0, 1)
    ELSE first_relevant_loop(items, relevant_items, k, idx + 1)

first_relevant_item(items, relevant_items, k) ==
    first_relevant_loop(items, relevant_items, k, 0)

InitMetrics ==
    /\ InitChat
    /\ history = <<>>
    /\ usable = None
    /\ rres = None
    /\ ev = None /\ thr = None /\ disk = None /\ ctor = None
    /\ \E items \in Arrangements(MetricIds), relevant \in Arrangements(MetricIds),
          k \in 1..MaxK :
          metric = [items |-> items, relevant_items |-> relevant, k |-> k,
                    fn |-> "none", out |-> NoneValue]

Apply(fn, out) ==
    /\ metric.fn = "none"
    /\ metric' = [metric EXCEPT !.fn = fn, !.out = out]
    /\ UNCHANGED <<history, usable, rres, ev, thr, disk, ctor>>
    /\ UNCHANGED chatVars

ApplyPrecision ==
    Apply("precision", precision(metric.items, metric.relevant_items, metric.k))
ApplyRecall ==
    Apply("recall", recall(metric.items, metric.relevant_items, metric.k))
ApplyF1 ==
    Apply("f1_score", f1_score(metric.items, metric.relevant_items, metric.k))
ApplyFirstRelevant ==
    Apply("first_relevant_item",
          first_relevant_item(metric.items, metric.relevant_items, metric.k))

NextMetrics ==
    \/ ApplyPrecision
    \/ ApplyRecall
    \/ ApplyF1
    \/ ApplyFirstRelevant

SpecMetrics == InitMetrics /\ [][NextMetrics]_vars

\* --------------------------------------------------------- evaluate_rag
\* entries of the longest dataset
MaxEntries == 2

\* The ground truth of a dataset entry: the ids of its relevant passages.
RelevantLists == {<<>>, <<"p1">>, <<"p2">>, <<"p9">>}

RECURSIVE Datasets(_)
Datasets(n) ==
    IF n = 0 THEN {<<>>}
    ELSE LET shorter == Datasets(n - 1)
         IN shorter \cup {Append(d, [relevant |-> r]) : d \in shorter,
                                                        r \in RelevantLists}

\* What the calls of one iteration answer: the rewrite call (a response, or
\* "fail"), the retrieval (points, or "fail"), the generation call and the
\* answer-relevancy call ("ok" or "fail").
EvalRewrites == RewriteResponses \cup {[kind |-> "fail"]}
EvalRetrievals == {[kind |-> "points", points |-> h] : h \in HybridResults}
                  \cup {[kind |-> "fail"]}
EvalCalls == {"ok", "fail"}

FAdd(v, w) == Value(v.n * w.d + w.n * v.d, v.d * w.d)

\* evaluate_retrieval: called with the relevant ids as items and the
\* retrieved ids as relevant_items, k left at its default 1.
evaluate_retrieval(retrieved_context, relevant_context) ==
    [Precision |-> precision(retrieved_context, relevant_context, 1),
     Recall |-> recall(retrieved_context, relevant_context, 1),
     F1_Score |-> f1_score(retrieved_context, relevant_context, 1)]

\* The first exception of one iteration of the loop, in the order of the
\* statements, or "none".
entry_error(item, rw, retr, gen, rel) ==
    LET retrieved == Top(retr.points, 3)
        rr == first_relevant_item(retrieved, item.relevant, 1)
        re == evaluate_retrieval(item.relevant, retrieved)
    IN IF rw.kind = "fail" THEN [error |-> "ValueError", stage |-> "rewrite"]
       ELSE IF rw.kind = "garbage"
            THEN [error |-> "JSONDecodeError", stage |-> "parse"]
       ELSE IF rw.kind = "json_nokeys"
            THEN [error |-> "KeyError", stage |-> "retrieve"]
       ELSE IF retr.kind = "fail"
            THEN [error |-> "RetrievalError", stage |-> "retrieve"]
       ELSE IF rr.tag = "None" THEN [error |-> "TypeError", stage |-> "mrr"]
       ELSE IF gen = "fail" THEN [error |-> "ValueError", stage |-> "generate"]
       ELSE IF re.Precision.tag # "value"
            THEN [error |-> re.Precision.tag, stage |-> "evaluate_retrieval"]
       ELSE IF re.Recall.tag # "value"
            THEN [error |-> re.Recall.tag, stage |-> "evaluate_retrieval"]
       ELSE IF rel = "fail"
            THEN [error |-> "ChatError", stage |-> "evaluate_generation"]
       ELSE [error |-> "none", stage |-> "none"]

InitEval ==
    /\ InitChat
    /\ history = <<>>
    /\ usable = None
    /\ rres = None
    /\ metric = None /\ thr = None /\ disk = None /\ ctor = None
    /\ \E d \in Datasets(MaxEntries) :
          ev = [pc |-> "loop", data |-> d, i |-> 1, evaluated_content |-> <<>>,
                mrr |-> Value(0, 1), added |-> <<>>, retrieved |-> <<>>,
                out |-> None,
                raised |-> [error |-> "none", stage |-> "none"]]

evalFrame == <<history, usable, rres, metric, thr, disk, ctor>>

\* One iteration of the loop in which every statement succeeds: the
\* reciprocal rank is added to mrr and the scored entry appended.  The field
\* added keeps the values added to mrr and the field retrieved the ids the
\* retrieval returned, one for each iteration.
EvalEntryOk(rw, retr, gen, rel) ==
    /\ ev.pc = "loop" /\ ev.i <= Len(ev.data)
    /\ LET item == ev.data[ev.i]
           retrieved == Top(retr.points, 3)
       IN /\ entry_error(item, rw, retr, gen, rel).error = "none"
          /\ ev' = [ev EXCEPT
                      !.i = @ + 1,
                      !.mrr = FAdd(@, first_relevant_item(retrieved, item.relevant, 1)),
                      !.added = Append(@, first_relevant_item(retrieved, item.relevant, 1)),
                      !.retrieved = Append(@, retrieved),
                      !.evaluated_content =
                          Append(@, [entry |-> ev.i]
                                    @@ evaluate_retrieval(item.relevant, retrieved))]
    /\ UNCHANGED evalFrame
    /\ UNCHANGED chatVars

\* What evaluate_rag does with the exception of an iteration: nothing
\* catches it, the run ends and the output file is not written.
eval_after_error(e, err) == [e EXCEPT !.pc = "raised", !.raised = err]

\* Variant: the entry is recorded as failed and the loop goes on.
eval_after_error_skip(e, err) ==
    [e EXCEPT !.i = @ + 1,
              !.evaluated_content = Append(@, [entry |-> e.i, failed |-> err])]

\* One iteration of the loop in which a statement raises.
EvalEntryRaise(rw, retr, gen, rel) ==
    /\ ev.pc = "loop" /\ ev.i <= Len(ev.data)
    /\ LET err == entry_error(ev.data[ev.i], rw, retr, gen, rel)
       IN /\ err.error # "none"
          /\ ev' = eval_after_error(ev, err)
    /\ UNCHANGED evalFrame
    /\ UNCHANGED chatVars

\* After the loop: mrr /= len(test_data), the record of the mean reciprocal
\* rank is appended and the output file written.
EvalFinish ==
    /\ ev.pc = "loop" /\ ev.i > Len(ev.data)
    /\ Len(ev.data) > 0
    /\ LET mean == Value(ev.mrr.n, ev.mrr.d * Len(ev.data))
           content == Append(ev.evaluated_content, [MeanReciprocalRank |-> mean])
       IN ev' = [ev EXCEPT !.pc = "done", !.mrr = mean,
                           !.evaluated_content = content, !.out = content]
    /\ UNCHANGED evalFrame
    /\ UNCHANGED chatVars

\* After the loop over an empty dataset: the division raises.
EvalFinishEmpty ==
    /\ ev.pc = "loop" /\ ev.i > Len(ev.data)
    /\ Len(ev.data) = 0
    /\ ev' = [ev EXCEPT !.pc = "raised",
                        !.raised = [error |-> "ZeroDivisionError", stage |-> "mean"]]
    /\ UNCHANGED evalFrame
    /\ UNCHANGED chatVars

NextEval ==
    \/ \E rw \in EvalRewrites, retr \in EvalRetrievals, gen \in EvalCalls,
          rel \in EvalCalls : EvalEntryOk(rw, retr, gen, rel)
    \/ \E rw \in EvalRewrites, retr \in EvalRetrievals, gen \in EvalCalls,
          rel \in EvalCalls : EvalEntryRaise(rw, retr, gen, rel)
    \/ EvalFinish
    \/ EvalFinishEmpty

SpecEval == InitEval /\ [][NextEval]_vars

\* ------------------------------------------- one Chat shared by threads
\* chat_ui.py keeps one Chat in st.cache_resource; every session runs its
\* script in a thread of its own and calls get_response and store_rating on
\* that instance.  Nothing in Chat locks, so the threads interleave between
\* the statements of _write_user_data, store_rating and get_response.

\* calls one thread makes
MaxThreadCalls == 2

Threads == {"t1", "t2"}

\* A thread is a session of the UI.  turns holds the turns the session has
\* asked and answered the last of them get_response has answered, 0 if none.
IdleThread == [pc |-> "idle", op |-> "none", turn |-> 0, n |-> 0, crash |-> "none",
               turns |-> {}, answered |-> 0]

InitConcurrent ==
    /\ InitChat
    /\ history = <<>>
    /\ usable = None
    /\ rres = None
    /\ metric = None /\ ev = None /\ disk = None /\ ctor = None
    /\ thr = [t \in Threads |-> IdleThread]

concFrame == <<history, alive, pc, loc, calls, last, usable, rres,
               metric, ev, disk, ctor>>

\* A session calls get_response: its first statement is _write_user_data().
TGetResponse(t) ==
    /\ thr[t].pc = "idle" /\ thr[t].n < MaxThreadCalls
    /\ turn' = turn + 1
    /\ thr' = [thr EXCEPT ![t] = [@ EXCEPT !.pc = "check", !.op = "get_response",
                                          !.turn = turn + 1, !.n = @ + 1,
                                          !.turns = @ \cup {turn + 1}]]
    /\ UNCHANGED <<use_data, file, completed, failed, rated>>
    /\ UNCHANGED concFrame

\* A session calls store_rating while a record is pending: the rating is
\* set in it, then _write_user_data() is entered.  rated keeps the turn the
\* session rates, the turn of the record that took the rating, and the rating.
TStoreRatingOk(t, rating) ==
    /\ thr[t].pc = "idle" /\ thr[t].n < MaxThreadCalls
    /\ use_data # None
    /\ use_data' = rated_use_data(use_data, rating)
    /\ rated' = rated \cup {<<thr[t].answered, use_data.turn, rating>>}
    /\ thr' = [thr EXCEPT ![t] = [@ EXCEPT !.pc = "check", !.op = "store_rating",
                                          !.n = @ + 1]]
    /\ UNCHANGED <<file, turn, completed, failed>>
    /\ UNCHANGED concFrame

\* A session calls store_rating while use_data is None: the item assignment
\* raises TypeError.
TStoreRatingNone(t, rating) ==
    /\ thr[t].pc = "idle" /\ thr[t].n < MaxThreadCalls
    /\ use_data = None
    /\ thr' = [thr EXCEPT ![t] = [@ EXCEPT !.n = @ + 1, !.crash = "rating"]]
    /\ UNCHANGED <<use_data, file, turn, completed, failed, rated>>
    /\ UNCHANGED concFrame

\* _write_user_data, the test: if self.use_data is not None.
TCheck(t) ==
    /\ thr[t].pc = "check"
    /\ thr' = [thr EXCEPT ![t].pc = IF use_data # None THEN "write" ELSE "clear"]
    /\ UNCHANGED <<use_data, file, turn, completed, failed, rated>>
    /\ UNCHANGED concFrame

\* _write_user_data, the write: writerow(self.use_data) reads use_data again
\* and appends the row.
TWriteRow(t) ==
    /\ thr[t].pc = "write"
    /\ use_data # None
    /\ file' = write_user_data_file(use_data, file)
    /\ thr' = [thr EXCEPT ![t].pc = "clear"]
    /\ UNCHANGED <<use_data, turn, completed, failed, rated>>
    /\ UNCHANGED concFrame

\* _write_user_data, the write, after another thread has set use_data to
\* None: DictWriter.writerow(None) raises and the call ends.
TWriteNone(t) ==
    /\ thr[t].pc = "write"
    /\ use_data = None
    /\ failed' = IF thr[t].op = "get_response" THEN failed \cup {thr[t].turn}
                 ELSE failed
    /\ thr' = [thr EXCEPT ![t] = [@ EXCEPT !.pc = "idle", !.op = "none",
                                          !.crash = "write"]]
    /\ UNCHANGED <<use_data, file, turn, completed, rated>>
    /\ UNCHANGED concFrame

\* _write_user_data, the last statement: self.use_data = None.  store_rating
\* returns; get_response goes on with the rewrite, retrieval and generation.
TClear(t) ==
    /\ thr[t].pc = "clear"
    /\ use_data' = write_user_data_pending(use_data)
    /\ thr' = [thr EXCEPT ![t] = IF @.op = "get_response"
                                  THEN [@ EXCEPT !.pc = "pipeline"]
                                  ELSE [@ EXCEPT !.pc = "idle", !.op = "none"]]
    /\ UNCHANGED <<file, turn, completed, failed, rated>>
    /\ UNCHANGED concFrame

\* The stages of get_response succeed: _store_user_data sets use_data to the
\* record of this turn and the answer is returned.
TStore(t, used_tokens, classification) ==
    /\ thr[t].pc = "pipeline"
    /\ use_data' = store_user_data(thr[t].turn, used_tokens, classification)
    /\ completed' = Append(completed, thr[t].turn)
    /\ thr' = [thr EXCEPT ![t] = [@ EXCEPT !.pc = "idle", !.op = "none",
                                          !.answered = thr[t].turn]]
    /\ UNCHANGED <<file, turn, failed, rated>>
    /\ UNCHANGED concFrame

\* A stage of get_response raises: nothing is stored.
TRaise(t) ==
    /\ thr[t].pc = "pipeline"
    /\ failed' = failed \cup {thr[t].turn}
    /\ thr' = [thr EXCEPT ![t] = [@ EXCEPT !.pc = "idle", !.op = "none"]]
    /\ UNCHANGED <<use_data, file, turn, completed, rated>>
    /\ UNCHANGED concFrame

NextConcurrent ==
    \/ \E t \in Threads : TGetResponse(t)
    \/ \E t \in Threads, rating \in Ratings : TStoreRatingOk(t, rating)
    \/ \E t \in Threads, rating \in Ratings : TStoreRatingNone(t, rating)
    \/ \E t \in Threads : TCheck(t)
    \/ \E t \in Threads : TWriteRow(t)
    \/ \E t \in Threads : TWriteNone(t)
    \/ \E t \in Threads : TClear(t)
    \/ \E t \in Threads, q \in Queries : TStore(t, get_used_tokens(q), "machine")
    \/ \E t \in Threads : TRaise(t)

SpecConcurrent == InitConcurrent /\ [][NextConcurrent]_vars

\* ------------------------------------------- constructions on one file
\* Chat.__init__ tests whether the telemetry file exists, opens it for
\* appending (which creates it) and writes the header through the buffered
\* file object when the test found no file.  The UI process and the
\* evaluation harness each construct a Chat on the same path.  The buffer
\* reaches the file at the first flush() of _write_user_data or at close().

\* constructions one process makes
MaxConstructions == 2
\* records one Chat writes
MaxLogRows == 1

Processes == {"ui", "evaluation"}

NoChat == [pc |-> "none", file_exists |-> FALSE, buffer |-> <<>>, made |-> 0,
           rows |-> 0]

LogRow(p, made, k) == [process |-> p, chat |-> made, record |-> k]

InitHeader ==
    /\ InitChat
    /\ history = <<>>
    /\ usable = None
    /\ rres = None
    /\ metric = None /\ ev = None /\ thr = None
    /\ disk = [exists |-> FALSE, rows |-> <<>>]
    /\ ctor = [p \in Processes |-> NoChat]

headerFrame == <<history, usable, rres, metric, ev, thr>>

\* file_exists = os.path.exists(DATA_PATH)
CtorExists(p) ==
    /\ ctor[p].pc \in {"none", "closed"} /\ ctor[p].made < MaxConstructions
    /\ ctor' = [ctor EXCEPT ![p] = [pc |-> "open", file_exists |-> disk.exists,
                                    buffer |-> <<>>, made |-> @.made + 1,
                                    rows |-> 0]]
    /\ UNCHANGED disk
    /\ UNCHANGED headerFrame
    /\ UNCHANGED chatVars

\* open(DATA_PATH, "a"): the file is created when it is not there.
CtorOpen(p) ==
    /\ ctor[p].pc = "open"
    /\ disk' = [disk EXCEPT !.exists = TRUE]
    /\ ctor' = [ctor EXCEPT ![p].pc = "header"]
    /\ UNCHANGED headerFrame
    /\ UNCHANGED chatVars

\* The buffer after: if not file_exists: writer.writeheader()
init_header(file_exists, buffer) ==
    IF ~file_exists THEN Append(buffer, HeaderRow) ELSE buffer

CtorHeader(p) ==
    /\ ctor[p].pc = "header"
    /\ ctor' = [ctor EXCEPT ![p] = [@ EXCEPT
                    !.pc = "ready",
                    !.buffer = init_header(ctor[p].file_exists, @)]]
    /\ UNCHANGED disk
    /\ UNCHANGED headerFrame
    /\ UNCHANGED chatVars

\* _write_user_data with a pending record: writerow puts it in the buffer
\* and flush() appends the buffer to the file.
LogWrite(p) ==
    /\ ctor[p].pc = "ready" /\ ctor[p].rows < MaxLogRows
    /\ disk' = [disk EXCEPT !.rows = @ \o ctor[p].buffer
                                      \o <<LogRow(p, ctor[p].made, ctor[p].rows + 1)>>]
    /\ ctor' = [ctor EXCEPT ![p] = [@ EXCEPT !.buffer = <<>>, !.rows = @ + 1]]
    /\ UNCHANGED headerFrame
    /\ UNCHANGED chatVars

\* __del__ with no pending record: close() appends the buffer to the file.
LogClose(p) ==
    /\ ctor[p].pc = "ready"
    /\ disk' = [disk EXCEPT !.rows = @ \o ctor[p].buffer]
    /\ ctor' = [ctor EXCEPT ![p] = [@ EXCEPT !.pc = "closed", !.buffer = <<>>]]
    /\ UNCHANGED headerFrame
    /\ UNCHANGED chatVars

NextHeader ==
    \/ \E p \in Processes : CtorExists(p)
    \/ \E p \in Processes : CtorOpen(p)
    \/ \E p \in Processes : CtorHeader(p)
    \/ \E p \in Processes : LogWrite(p)
    \/ \E p \in Processes : LogClose(p)

SpecHeader == InitHeader /\ [][NextHeader]_vars

\* ================================================================ claims
CompletedSet == {completed[i] : i \in 1..Len(completed)}
\* Indices of the rows of the file that turn t produced (row 1 is the header).
RowsOf(t) == {i \in 2..Len(file) : file[i].turn = t}
Pending(t) == use_data # None /\ use_data.turn = t
LastCompleted == completed[Len(completed)]
RatingOf(t) == IF \E r \in Ratings : <<t, r>> \in rated
               THEN Rated(CHOOSE r \in Ratings : <<t, r>> \in rated)
               ELSE NaN

\* C1: every completed turn has exactly one telemetry record, either pending
\* in use_data with its rating unset or as exactly one row of the file (never
\* two, and exactly one once the object is destroyed); an accepted
\* store_rating puts its rating on the row of the turn that was completed
\* last, and a row never carries a rating other than the one accepted.
C1_OneRowPerCompletedTurn ==
    /\ \A t \in CompletedSet :
          /\ Cardinality(RowsOf(t)) + (IF Pending(t) THEN 1 ELSE 0) = 1
          /\ \A i \in RowsOf(t) : file[i].rating = RatingOf(t)
          /\ ~alive => Cardinality(RowsOf(t)) = 1
    /\ use_data # None => use_data.rating = NaN
    /\ (last.op = "get_response" /\ last.status = "returned")
          => /\ Pending(last.turn)
             /\ use_data.rating = NaN
    /\ (last.op = "store_rating" /\ last.status = "returned")
          => /\ last.turn = LastCompleted
             /\ RowsOf(last.turn) = {Len(file)}
             /\ file[Len(file)].rating = Rated(last.arg)
             /\ use_data = None

\* C1 witness: a turn was rated and its single row carries the rating, an
\* earlier turn went unrated and has its single row too.
C1_Witness ==
    /\ last.op = "store_rating" /\ last.status = "returned" /\ last.arg = 1
    /\ Len(completed) = 2
    /\ Cardinality(RowsOf(completed[1])) = 1
    /\ file[Len(file)].rating = Rated(1)
    /\ file[Len(file) - 1].rating = NaN

\* C2: store_rating before any turn has completed raises no error, writes no
\* row and leaves use_data as it was.
C2_RatingBeforeAnyTurnIsNoOp ==
    (last.op = "store_rating" /\ completed = <<>>)
        => /\ last.status = "returned"
           /\ file = <<HeaderRow>>
           /\ use_data = None

\* C3: a second store_rating for the same completed turn, no get_response in
\* between, succeeds, and the single row of the turn carries its rating.
C3_SecondRatingWins ==
    (/\ last.op = "store_rating" /\ last.repeat
     /\ completed # <<>> /\ turn = LastCompleted)
        => /\ last.status = "returned"
           /\ Cardinality(RowsOf(turn)) = 1
           /\ \A i \in RowsOf(turn) : file[i].rating = Rated(last.arg)

\* C4: a turn that failed at any stage never has a telemetry record, neither
\* pending nor in the file, whatever is called afterwards; every row of the
\* file belongs to a completed turn, and the completed turns keep their record.
C4_FailedTurnLeavesNoRow ==
    /\ \A t \in failed : RowsOf(t) = {} /\ ~Pending(t)
    /\ \A i \in 2..Len(file) : file[i].turn \in CompletedSet
    /\ use_data # None => use_data.turn \in CompletedSet
    /\ (last.op = "get_response" /\ last.status = "raised") => use_data = None
    /\ \A t \in CompletedSet : Cardinality(RowsOf(t)) = 1 \/ Pending(t)

\* C4 witness: a turn failed at the generation stage between two completed
\* turns, and the object has been destroyed.
C4_Witness ==
    /\ ~alive
    /\ \E t \in failed : \E a, b \in CompletedSet : a < t /\ t < b
    /\ Len(file) = 3

\* C5 (as stated): when get_response returns its answer the row of the turn
\* is in the file.
C5_RowInFileAtReturn ==
    (last.op = "get_response" /\ last.status = "returned")
        => Cardinality(RowsOf(last.turn)) = 1

C5_PendingAtReturn ==
    (last.op = "get_response" /\ last.status = "returned")
        => /\ Pending(last.turn)
           /\ use_data.rating = NaN
           /\ RowsOf(last.turn) = {}

C5_NextCallWrites ==
    (use_data # None /\ pc = "idle")
        => /\ use_data' = None
           /\ Len(file') = Len(file) + 1
           /\ SubSeq(file', 1, Len(file)) = file
           /\ file'[Len(file')].turn = use_data.turn

\* C5 (amended): when get_response returns its answer the record of the turn
\* is pending in use_data, rating unset, and not yet in the file; the next
\* store_rating, get_response or __del__ appends it to the file.
C5_RowWrittenByNextCall ==
    []C5_PendingAtReturn /\ [][C5_NextCallWrites]_vars

\* C5 witness: the record of a returned turn has been written by the next
\* get_response, which is still in flight.
C5_Witness ==
    /\ pc = "rewriting"
    /\ turn = 2
    /\ RowsOf(1) = {2}
    /\ file[2].rating = NaN

RowTurns == [i \in 1..(Len(file) - 1) |-> file[i + 1].turn]

C6_Ordered ==
    /\ Len(file) - 1 <= Len(completed)
    /\ RowTurns = SubSeq(completed, 1, Len(file) - 1)

C6_AppendOnly ==
    /\ Len(file') >= Len(file)
    /\ SubSeq(file', 1, Len(file)) = file
    /\ rated' # rated =>
          \E r \in Ratings : rated' = rated \cup {<<LastCompleted, r>>}

\* C6: the rows of the file are in the order their turns completed, a step
\* only ever appends to the file (no row is modified, removed or moved), and
\* a rating is only accepted for the turn completed last.
C6_AppendOnlyInCompletionOrder ==
    []C6_Ordered /\ [][C6_AppendOnly]_vars

\* C6 witness: three turns completed, the second was rated, and the three
\* rows are in the file after destruction.
C6_Witness ==
    /\ ~alive
    /\ Len(completed) = 3
    /\ Len(file) = 4
    /\ file[3].rating = Rated(0)
    /\ file[2].rating = NaN

\* C8: once the LLM call of the rewriting or of the generation stage has
\* failed, get_response has raised (no answer is returned), no later stage
\* of the turn has run, and the failed call was issued once.
C8_LlmFailureRaisesOnce ==
    /\ calls.rewrite <= 1 /\ calls.generate <= 1
    /\ calls.llm_failed = "rewrite"
          => /\ pc = "idle"
             /\ last.op = "get_response"
                   => last.status = "raised" /\ last.value.error = "ValueError"
             /\ turn \in failed
             /\ calls.rewrite = 1 /\ calls.retrieve = 0 /\ calls.generate = 0
    /\ calls.llm_failed = "generate"
          => /\ pc = "idle"
             /\ last.op = "get_response"
                   => last.status = "raised" /\ last.value.error = "ValueError"
             /\ turn \in failed
             /\ calls.generate = 1

\* C8 witness: one turn raised at the rewrite call, a later one at the
\* generation call.
C8_Witness ==
    /\ calls.llm_failed = "generate"
    /\ last.status = "raised"
    /\ \E t \in failed : t < turn
    /\ completed = <<>>

\* C9: a classification outside the six labels is never passed to the
\* retrieval and never recorded in a telemetry record.
C9_UnknownLabelSurfaced ==
    /\ calls.label \in Labels \cup {"none"}
    /\ use_data # None => use_data.query_classification \in Labels
    /\ \A i \in 2..Len(file) : file[i].query_classification \in Labels

\* C7: the usable history is a prefix of the history (relative order kept),
\* the running token count of its messages stays below the limit at every
\* message, and an empty history or a single message of at least the limit
\* gives the empty sequence.
C7_RunningTotalBelowLimit ==
    usable # None =>
        LET r == usable.result
        IN /\ Len(r) <= Len(history)
           /\ r = SubSeq(history, 1, Len(r))
           /\ \A i \in 1..Len(r) : SumTok(SubSeq(r, 1, i)) < usable.limit
           /\ history = <<>> => r = <<>>
           /\ (Len(history) = 1 /\ history[1].ntok >= usable.limit) => r = <<>>

\* C10: retrieval returns a sequence of at most limit points, no id twice.
C10_AtMostLimitNoDuplicates ==
    rres # None =>
        /\ rres.ret.tag = "sequence"
        /\ Len(rres.ret.points) <= rres.limit
        /\ NoDup(rres.ret.points)

\* C11: for a classification without any indexed passage, retrieval returns
\* the empty ranking and raises nothing.
C11_EmptyPartitionReturnsEmpty ==
    (rres # None /\ \A p \in Corpus : p.classification # rres.classification)
        => rres.ret = [tag |-> "sequence", points |-> <<>>]

PartitionOf(classification) ==
    {p.id : p \in {c \in Corpus : c.classification = classification}}

\* The candidates of a branch are the best of the partition by the branch's
\* ranking: a passage of the partition that the ranking holds and the branch
\* left out comes after every candidate, and the branch is full.
BranchBest(branch, ranking, classification, limit) ==
    /\ Range(branch) \subseteq PartitionOf(classification)
    /\ \A id \in (PartitionOf(classification) \cap Range(ranking)) \ Range(branch) :
          /\ Len(branch) = limit
          /\ \A c \in Range(branch) : PosIn(ranking, c) < PosIn(ranking, id)

IdOrder == <<"p1", "p2", "p3", "p4">>
\* The order the fusion is to answer: by descending score, then the points
\* of the dense branch before the others, then by id.
FusedBefore(a, b, dense, lexical) ==
    LET sa == RrfScore(a, dense, lexical)
        sb == RrfScore(b, dense, lexical)
        pa == IF a \in Range(dense) THEN 0 ELSE 1
        pb == IF b \in Range(dense) THEN 0 ELSE 1
    IN \/ sa > sb
       \/ sa = sb /\ pa < pb
       \/ sa = sb /\ pa = pb /\ PosIn(IdOrder, a) < PosIn(IdOrder, b)

\* C13: the fused order is a function of the two branch rankings: by
\* descending score, ties broken dense before lexical, then by id; no id
\* occurs twice.
C13_FusionDeterministic ==
    rres # None =>
        /\ NoDup(rres.points)
        /\ \A i, j \in 1..Len(rres.points) :
              i < j => FusedBefore(rres.points[i], rres.points[j],
                                   rres.dense, rres.lexical)

\* n1 / d1 = n2 / d2, for positive denominators.
SameValue(v, n, d) == v.tag = "value" /\ v.n * d = n * v.d

Applied(fn) == metric # None /\ metric.fn = fn

\* C14: precision and recall return |retrieved n relevant| / k without
\* raising, whatever the lengths of the two collections.
C14_PrecisionRecallNeverRaise ==
    (Applied("precision") \/ Applied("recall"))
        => SameValue(metric.out,
                     Cardinality(Range(metric.items) \cap Range(metric.relevant_items)),
                     metric.k)

\* Indices (from 0) of the relevant items.
Hits == {i \in 0..(Len(metric.items) - 1) :
            metric.items[i + 1] \in Range(metric.relevant_items)}
FirstHit == CHOOSE i \in Hits : \A j \in Hits : i <= j

\* C15: first_relevant_item returns 1 / (idx + 1) for the first relevant
\* item at index idx < k, and the number 0 when there is none before index k.
C15_ReciprocalRankOrZero ==
    Applied("first_relevant_item")
        => IF Hits # {} /\ FirstHit < metric.k
           THEN SameValue(metric.out, 1, FirstHit + 1)
           ELSE SameValue(metric.out, 0, 1)

\* C16: where precision and recall return a value it lies in [0, 1]; where
\* f1_score returns a value it is 0 when both are 0 and their harmonic mean
\* otherwise: f1 * (precision + recall) = 2 * precision * recall.
C16_RangeAndHarmonicMean ==
    /\ ((Applied("precision") \/ Applied("recall")) /\ metric.out.tag = "value")
          => /\ metric.out.d > 0
             /\ 0 <= metric.out.n /\ metric.out.n <= metric.out.d
    /\ (Applied("f1_score") /\ metric.out.tag = "value")
          => LET p == precision(metric.items, metric.relevant_items, metric.k)
                 r == recall(metric.items, metric.relevant_items, metric.k)
                 f == metric.out
             IN /\ p.tag = "value" /\ r.tag = "value"
                /\ f.d > 0
                /\ (p.n = 0 /\ r.n = 0) => f.n = 0
                /\ f.n * (p.n * r.d + r.n * p.d) * (p.d * r.d)
                      = 2 * p.n * r.n * f.d * (p.d * r.d)

\* C16 witness: f1_score of precision 3/3 and recall 2/3 is 4/5.
C16_Witness ==
    /\ Applied("f1_score") /\ metric.out.tag = "value"
    /\ metric.k = 3
    /\ precision(metric.items, metric.relevant_items, 3) = Value(3, 3)
    /\ recall(metric.items, metric.relevant_items, 3) = Value(2, 3)
    /\ SameValue(metric.out, 4, 5)

\* C17: in evaluate_rag a failure of the LLM, or of parsing its response, for
\* one dataset entry does not abort the run: the run never ends on such an
\* exception, and a finished run has written the output file with one entry
\* for every dataset entry.
LlmStages == {"rewrite", "parse", "generate"}

C17_LlmFailureDoesNotAbortRun ==
    /\ ~(ev.pc = "raised" /\ ev.raised.stage \in LlmStages)
    /\ ev.pc = "done" =>
         /\ ev.out # None
         /\ \A i \in 1..Len(ev.data) :
              \E j \in 1..Len(ev.out) : "entry" \in DOMAIN ev.out[j] /\ ev.out[j].entry = i

\* C18: the mean reciprocal rank written by evaluate_rag is the sum of the
\* contributions divided by the number of scored entries, and the run ends
\* with the value 0, not with an exception, when no entry was scored.
ScoredEntries == {j \in 1..Len(ev.evaluated_content) :
                     "Precision" \in DOMAIN ev.evaluated_content[j]}

RECURSIVE SumAdded(_, _)
SumAdded(added, n) ==
    IF n = 0 THEN Value(0, 1) ELSE FAdd(SumAdded(added, n - 1), added[n])

C18_MeanOverScoredEntries ==
    (ev.pc # "loop" /\ ev.i > Len(ev.data)) =>
        /\ ev.pc = "done"
        /\ LET written == ev.out[Len(ev.out)].MeanReciprocalRank
               scored == Cardinality(ScoredEntries)
           IN IF scored = 0 THEN written.n = 0
              ELSE LET total == SumAdded(ev.added, Len(ev.added))
                   IN SameValue(written, total.n, total.d * scored)

C18_Witness ==
    /\ ev.pc = "done"
    /\ Len(ev.data) = 2
    /\ ev.added = <<Value(1, 1), Value(1, 2)>>
    /\ SameValue(ev.out[Len(ev.out)].MeanReciprocalRank, 3, 4)
\* C19: calls of different sessions on the shared Chat are serialized: under
\* every interleaving no record is written to the log twice, no record of a
\* returned turn is lost, and no call fails in _write_user_data because
\* another thread cleared use_data between its test and its write.
C19_NoRecordTwice == \A t \in 1..turn : Cardinality(RowsOf(t)) <= 1

C19_NoRecordLost == \A t \in CompletedSet : RowsOf(t) # {} \/ Pending(t)

C19_NoCrashInWrite == \A t \in Threads : thr[t].crash # "write"

C19_WritesSerialized ==
    /\ C19_NoRecordTwice
    /\ C19_NoRecordLost
    /\ C19_NoCrashInWrite
\* C20: the header is written exactly once, on first creation of the file:
\* whenever no construction is under way and no Chat holds unwritten rows
\* in its buffer, a file some Chat was constructed on holds exactly one
\* header row, and that row is its first.
Settled ==
    /\ \A p \in Processes : ctor[p].pc \in {"none", "ready", "closed"}
                             /\ ctor[p].buffer = <<>>
    /\ \E p \in Processes : ctor[p].made > 0

HeaderPositions == {i \in 1..Len(disk.rows) : disk.rows[i] = HeaderRow}

C20_HeaderOnceAndFirst == Settled => HeaderPositions = {1}
\* C21: with several sessions, a rating a session submits for its answer is
\* recorded only on the record of that session's turn, never on the record
\* of another session's turn, and a get_response of another session never
\* writes a session's record to the log before its rating arrived.
C21_RatingOnOwnTurn ==
    \A e \in rated : e[1] # 0 => e[2] = e[1]

C21_NotFinalizedByOther ==
    \A t \in Threads :
        (thr[t].op = "get_response" /\ thr[t].pc = "write"
         /\ Len(file') = Len(file) + 1)
            => file'[Len(file')].turn \in thr[t].turns

C21_RatingStaysWithSession ==
    /\ []C21_RatingOnOwnTurn
    /\ [][C21_NotFinalizedByOther]_vars
\* C22: a get_response turn goes through rewriting, retrieving, generating
\* in that order and none is skipped on the way to completion: the retrieval
\* is issued only after the rewrite response was parsed, with its query and
\* classification; the generation is issued only after the retrieval
\* returned, with its passages; the record is created only after the
\* generation returned.
StageSteps == {<<"idle", "rewriting">>, <<"rewriting", "retrieving">>,
               <<"retrieving", "generating">>, <<"generating", "idle">>,
               <<"rewriting", "idle">>, <<"retrieving", "idle">>}

C22_StageState ==
    /\ pc = "rewriting" => calls.retrieve = 0 /\ calls.generate = 0
    /\ pc = "retrieving" =>
          /\ calls.rewrite = 1 /\ loc.new_query # None
          /\ calls.retrieve = 0 /\ calls.generate = 0
    /\ pc = "generating" =>
          /\ calls.rewrite = 1 /\ calls.retrieve = 1 /\ calls.generate = 0
          /\ calls.args.query = loc.new_query.query
          /\ calls.args.classification = loc.new_query.classification

C22_StageStep ==
    /\ pc' # pc => <<pc, pc'>> \in StageSteps
    /\ calls'.retrieve = calls.retrieve + 1 => pc = "retrieving"
    /\ calls'.generate = calls.generate + 1 =>
          /\ pc = "generating"
          /\ calls'.sent.documents = loc.context
          /\ calls'.sent.query = loc.new_query.query
    /\ (use_data' # None /\ use_data' # use_data) => completed' # completed
    /\ completed' # completed =>
          /\ pc = "generating" /\ pc' = "idle"
          /\ calls'.rewrite = 1 /\ calls'.retrieve = 1 /\ calls'.generate = 1
          /\ use_data' # None /\ use_data'.turn = turn

C22_StagesInOrder == []C22_StageState /\ [][C22_StageStep]_vars

C22_Witness ==
    /\ pc = "idle" /\ last.op = "get_response" /\ last.status = "returned"
    /\ calls.rewrite = 1 /\ calls.retrieve = 1 /\ calls.generate = 1
    /\ calls.args = [query |-> "rq", classification |-> "machine"]
    /\ calls.sent.documents = <<"p1", "p2", "p3">>
    /\ use_data # None /\ use_data.turn = turn
\* C23: on completing a turn get_response appends the user turn and the
\* assistant turn to the history: after n completed turns the history holds
\* 2n entries, and the rewrite prompt of a turn that follows a completed
\* turn is built from a non-empty usable history.
C23_HistoryGrowsByTwo ==
    /\ Len(history) = 2 * Len(completed)
    /\ (pc = "rewriting" /\ completed # <<>>) =>
          \A p \in {loc.user_prompt, loc.sys_prompt} :
              p.id = "reword_user" => p.history # <<>>
\* C24: the used_tokens of a turn's record is the sum of the token counts
\* of every prompt sent and every completion received in the turn: the two
\* rewrite prompts, the rewrite response, the two generation prompts and
\* the answer.
TurnPrompts == <<loc.user_prompt, loc.sys_prompt>>
               \o get_rag_prompt(loc.new_query, loc.context)

C24_RecordStep ==
    completed' # completed =>
        use_data'.used_tokens = SumTok(TurnPrompts)
                                + get_used_tokens(loc.new_query)
                                + get_used_tokens(last'.value)

C24_UsedTokensCountsAll == [][C24_RecordStep]_vars
\* C25: in the rewrite call of get_response the instruction returned by
\* get_reword_prompt is sent in the system role and the payload with the
\* query and the history in the user role, the roles the rewrite call of
\* evaluate_rag gives them.
C25_RewriteRoles ==
    calls.rewrite > 0 =>
        /\ calls.messages.system.id = "reword_system"
        /\ calls.messages.user.id = "reword_user"
        /\ \A q \in Queries :
              /\ calls.messages.system.id = evaluate_rewrite_messages(q).system.id
              /\ calls.messages.user.id = evaluate_rewrite_messages(q).user.id
\* C26: for every scored entry the Precision, Recall and F1_Score recorded
\* by evaluate_rag are precision@k, recall@k and F1@k of the retrieved ids
\* against the relevant ids of the entry, with k = 3, the number of passages
\* retrieved: hits / 3 for precision and recall, their harmonic mean for F1.
RetrievedAtK == 3

HitsAtK(retrieved, relevant) ==
    Cardinality(Range(Top(retrieved, RetrievedAtK)) \cap Range(relevant))

C26_MetricsAtThree ==
    \A j \in 1..Len(ev.retrieved) :
        LET scored == ev.evaluated_content[j]
            hits == HitsAtK(ev.retrieved[j], ev.data[j].relevant)
        IN /\ SameValue(scored.Precision, hits, RetrievedAtK)
           /\ SameValue(scored.Recall, hits, RetrievedAtK)
           /\ SameValue(scored.F1_Score, hits, RetrievedAtK)

====
